---- MODULE Spec2Model ----
(***************************************************************************)
(* Browser runtime acquisition of browser_agent: build_browser, the        *)
(* candidate resolution, the fresh-Chrome launcher with its one retry, and *)
(* the processes and endpoints of the machine it runs on.                  *)
(***************************************************************************)
EXTENDS Integers, Sequences, FiniteSets, TLC

\* ------------------------------------------------------------------ bounds
\* Upper end of the port scan (stands for stop = 9400); ports are 1..ScanStop.
ScanStop == 3
\* fresh_chrome_start_timeout, counted in sleeps of the polling loop.
StartTimeout == 2
\* How often the machine outside the program may change during one run.
MaxEnvChanges == 1

Ports == 1 .. ScanStop
\* config.cdp_port; the scan of a busy port then covers 2 .. ScanStop
CdpPorts == {1}
ExitCodes == {1}
\* int(time.time()) when the retry directory is named
WallClock == {7}

\* ------------------------------------------------------------------ values
VALID_BROWSER_MODES == {"auto", "own", "fresh", "managed"}

\* Mode strings as Python sees them: sequences of characters.
Spelling(mode) ==
    CASE mode = "auto" -> <<"a", "u", "t", "o">>
      [] mode = "own" -> <<"o", "w", "n">>
      [] mode = "fresh" -> <<"f", "r", "e", "s", "h">>
      [] mode = "managed" -> <<"m", "a", "n", "a", "g", "e", "d">>
      [] OTHER -> << >>
Whitespace == {" ", "\t", "\n"}
LowerChar(c) ==
    CASE c = "A" -> "a" [] c = "U" -> "u" [] c = "T" -> "t" [] c = "O" -> "o"
      [] c = "W" -> "w" [] c = "N" -> "n" [] c = "F" -> "f" [] c = "R" -> "r"
      [] c = "E" -> "e" [] c = "S" -> "s" [] c = "H" -> "h" [] c = "M" -> "m"
      [] c = "G" -> "g" [] c = "D" -> "d" [] c = "C" -> "c"
      [] OTHER -> c
\* str.lower()
Lower(str) == [k \in 1 .. Len(str) |-> LowerChar(str[k])]
RECURSIVE LStrip(_)
LStrip(str) ==
    IF str # << >> /\ Head(str) \in Whitespace THEN LStrip(Tail(str)) ELSE str
RECURSIVE RStripWs(_)
RStripWs(str) ==
    IF str # << >> /\ str[Len(str)] \in Whitespace
    THEN RStripWs(SubSeq(str, 1, Len(str) - 1))
    ELSE str

\* mutant: every whitespace character is dropped, not only the outer ones
StripMutEverywhere(str) == SelectSeq(str, LAMBDA c : c \notin Whitespace)

\* str.strip()
Strip(str) == RStripWs(LStrip(str))

\* What BROWSER_MODE may hold: the four modes, spellings of them with outer
\* whitespace and capitals, and texts that are no mode.
RawModes ==
    {Spelling(m) : m \in VALID_BROWSER_MODES} \cup
    {<<" ", "A", "u", "t", "o", " ">>, <<"O", "W", "N">>,
     <<"f", "r", "e", "s", "h", "\n">>, <<"\t", "M", "a", "n", "a", "g", "e", "d">>,
     <<"c", "h", "r", "o", "m", "e">>, <<"a", " ", "u", "t", "o">>,
     <<"a", "u", "t", "o", "s">>, <<" ">>, << >>, <<"F", "R", "E", "S">>}

Url(h, p, s) == [host |-> h, port |-> p, slash |-> s]
NoUrl == Url("none", 0, FALSE)
NoPid == 0

\* str.rstrip("/")
RStrip(u) == [u EXCEPT !.slash = FALSE]

Loopback(p) == Url("127.0.0.1", p, FALSE)
Localhost(p) == Url("localhost", p, FALSE)
Remote == Url("remote", 1, FALSE)

\* The values config.cdp_url takes: unset, the loopback URL of the
\* configured port written with a trailing slash, a URL on another host.
CdpUrlChoices(p) == {NoUrl, Url("127.0.0.1", p, TRUE), Remote}

Configs ==
    [browser_mode : VALID_BROWSER_MODES,
     connect_existing_cdp : BOOLEAN,
     cdp_url : UNION {CdpUrlChoices(p) : p \in CdpPorts},
     cdp_port : CdpPorts]

BaseDir == <<"chrome-fresh-profile">>
\* base_user_data_dir.parent / f"{name}-run-{int(time.time())}"
RetryDir(base, t) == base \o <<"-run-", t>>

NoHint == [cmd |-> "", port |-> 0]
NoErr == [kind |-> "none", code |-> -1, hint |-> NoHint,
          ctxKind |-> "none", ctxCode |-> -1]
Err(k, c, h) == [kind |-> k, code |-> c, hint |-> h,
                 ctxKind |-> "none", ctxCode |-> -1]
\* mutant: the retry runs after the handler, so its error stands alone
WithContextMutUnchained(e, first) == e

\* An exception raised while another one is being handled keeps the handled
\* one as its context.
WithContext(e, first) == [e EXCEPT !.ctxKind = first.kind, !.ctxCode = first.code]

Ev(e, u, p, i, r) == [ev |-> e, url |-> u, port |-> p, pid |-> i, res |-> r]

\* --------------------------------------------------- provider settings
\* A variable of the environment: unset, or set to a text.
Unset == [set |-> FALSE, val |-> << >>]
SetTo(str) == [set |-> TRUE, val |-> str]

\* the place where `\s+#.*$` first matches: whitespace, then a "#"
CommentStarts(str) ==
    {i \in 1 .. Len(str) :
        /\ str[i] \in Whitespace
        /\ \E j \in i + 1 .. Len(str) :
              str[j] = "#" /\ \A k \in i .. j - 1 : str[k] \in Whitespace}

\* config.py line 36: _INLINE_COMMENT_RE.sub("", value)
CutComment(str) ==
    IF CommentStarts(str) = {} THEN str
    ELSE SubSeq(str, 1, (CHOOSE i \in CommentStarts(str) :
                            \A k \in CommentStarts(str) : i <= k) - 1)

\* mutant: whatever is set counts, blank or not
CleanEnvMutRaw(v) == v

\* config.py lines 30-37: _clean_env
clean_env(v) ==
    IF ~v.set THEN Unset
    ELSE IF Strip(v.val) = << >> THEN Unset
    ELSE IF Strip(CutComment(Strip(v.val))) = << >> THEN Unset
    ELSE SetTo(Strip(CutComment(Strip(v.val))))

\* What a key variable may hold: nothing, blanks, a key, a key with a
\* comment behind it, a key with blanks around it, a "#" after blanks.
RawValues ==
    {Unset, SetTo(<< >>), SetTo(<<" ">>), SetTo(<<"k">>),
     SetTo(<<"k", " ", "#", "c">>), SetTo(<<" ", "k", " ">>),
     SetTo(<<" ", "#", "c">>)}
EnvNames == {"OPENAI_API_KEY", "OPENAI_KEY", "GOOGLE_API_KEY", "GEMINI_API_KEY"}
NoKeys == [n \in EnvNames |-> Unset]

\* What AppConfig.provider may hold.
AutoProvider == <<"a", "u", "t", "o">>
RawProviders ==
    {AutoProvider, <<" ", "A", "U", "T", "O", "\t">>,
     <<"o", "p", "e", "n", "a", "i">>, <<"G", "E", "M", "i", "n", "i">>,
     <<"g", "o", "o", "g", "l", "e">>, <<"c", "l", "a", "u", "d", "e">>, << >>}

\* config.py lines 169-175: a key is there when _clean_env leaves something
openai_api_key(env) == clean_env(env["OPENAI_API_KEY"]).set
google_api_key(env) == clean_env(env["GOOGLE_API_KEY"]).set

\* config.py lines 109-115: an alias fills in for a main variable that is
\* unset or blank
normalize_api_key_aliases(env) ==
    LET openai_alias == clean_env(env["OPENAI_KEY"])
        gemini_alias == clean_env(env["GEMINI_API_KEY"])
        e1 == IF openai_alias.set /\ ~clean_env(env["OPENAI_API_KEY"]).set
              THEN [env EXCEPT !["OPENAI_API_KEY"] = openai_alias] ELSE env
    IN  IF gemini_alias.set /\ ~clean_env(env["GOOGLE_API_KEY"]).set
        THEN [e1 EXCEPT !["GOOGLE_API_KEY"] = gemini_alias] ELSE e1

\* mutant: a Google key wins whenever there is one
AutoProviderMutPrefersGemini(google, openai) ==
    IF google THEN "gemini" ELSE "openai"

\* config.py lines 187-189: the choice when provider is auto
auto_provider(google, openai) ==
    IF google /\ ~openai THEN "gemini" ELSE "openai"

\* config.py lines 177-189: resolved_provider; "ValueError" stands for the
\* exception of line 184
resolved_provider(prov, env) ==
    LET p == Lower(Strip(prov)) IN
    IF p \in {<<"g", "e", "m", "i", "n", "i">>, <<"g", "o", "o", "g", "l", "e">>}
    THEN "gemini"
    ELSE IF p = <<"o", "p", "e", "n", "a", "i">> THEN "openai"
    ELSE IF p # AutoProvider THEN "ValueError"
    ELSE auto_provider(google_api_key(env), openai_api_key(env))

\* mutant: the key of the selected provider is not asked for
KeyMissingMutNever(sel, env) == FALSE

\* config.py lines 224-231: the selected provider has no key
key_missing(sel, env) ==
    \/ sel = "openai" /\ ~openai_api_key(env)
    \/ sel = "gemini" /\ ~google_api_key(env)

VARIABLES
    config,           \* the validated AppConfig
    listening,        \* ports with a listener that is not ours
    alive,            \* endpoints served by a browser that is not ours
    envChanges,       \* changes of the outside machine so far
    procs,            \* processes spawned by the program, by pid
    dirs,             \* user-data directories created
    now,              \* time.monotonic(), in sleeps
    pc,               \* position in build_browser
    active_mode, cdp_url, launched_process, existing_cdp,  \* build_browser locals
    ci, seen,         \* _resolve_existing_cdp_url: loop index, seen set
    attempt, user_data_dir, port, process, deadline, first_error, \* launcher locals
    executable,       \* what _find_chrome_executable returned
    error,            \* the exception build_browser raised
    handle,           \* the BrowserRuntime build_browser returned
    log,              \* probes, port tests, spawns and signals, in order
    base_url, response, verdict,  \* one call of _cdp_alive: argument, HTTP answer, result
    keep_alive,       \* config.keep_alive as _run hands it to cleanup
    agent_outcome,    \* how the try body of _run ended
    in_flight,        \* the exception travelling out of _run, if any
    exit_status,      \* what main returned
    raw_mode,         \* BROWSER_MODE as given, a sequence of characters
    provider,         \* AppConfig.provider, a sequence of characters
    environ,          \* os.environ: the four variables that may hold a key
    selected,         \* what resolved_provider returned to validate()
    accepted          \* whether validate() let the provider settings pass

world == <<listening, alive, envChanges>>
bbLocals == <<active_mode, cdp_url, launched_process, existing_cdp>>
resLocals == <<ci, seen>>
lnLocals == <<attempt, user_data_dir, port, process, deadline, first_error,
             executable>>
vars == <<config, listening, alive, envChanges, procs, dirs, now, pc,
          active_mode, cdp_url, launched_process, existing_cdp, ci, seen,
          attempt, user_data_dir, port, process, deadline, first_error,
          executable, error, handle, log, base_url, response, verdict,
          keep_alive, agent_outcome, in_flight, exit_status, raw_mode,
          provider, environ, selected, accepted>>
probeVars == <<base_url, response, verdict>>
provVars == <<provider, environ, selected, accepted>>
runVars == <<keep_alive, agent_outcome, in_flight, exit_status, raw_mode>>

\* `executable` before line 122 has run
NoExecutable == "none"

NoHandle == [mode |-> "none", cdp_url |-> NoUrl, launched_process |-> NoPid]

\* ------------------------------------------------------------ the machine
Running(i) == procs[i].state = "running"
Serving(i) == Running(i) /\ procs[i].ready

\* What urlopen(.../json/version) can come back with, as far as _cdp_alive
\* looks at it: how the exchange went, whether the body decodes as UTF-8,
\* whether it parses as JSON, the type of the parsed value, and for an
\* object whether it has a "Browser" member, of which type, and whether
\* Python's bool() of that member is true. Fields past the point where the
\* function stops reading are left at their defaults.
Transports == {"ok", "refused", "timeout", "http_error"}
JsonTypes == {"object", "array", "string", "number", "boolean", "null"}
Responses ==
    {r \in [transport : Transports, decodes : BOOLEAN, parses : BOOLEAN,
            type : JsonTypes, has_browser : BOOLEAN,
            browser_type : JsonTypes, browser_truthy : BOOLEAN] :
        /\ r.transport # "ok" => ~r.decodes
        /\ ~r.decodes => ~r.parses
        /\ ~r.parses => r.type = "null"
        /\ r.type # "object" => ~r.has_browser
        /\ ~r.has_browser => r.browser_type = "null"
        /\ r.browser_type = "null" => ~r.browser_truthy}
VersionResponse ==
    [transport |-> "ok", decodes |-> TRUE, parses |-> TRUE, type |-> "object",
     has_browser |-> TRUE, browser_type |-> "string", browser_truthy |-> TRUE]
RefusedResponse ==
    [transport |-> "refused", decodes |-> FALSE, parses |-> FALSE, type |-> "null",
     has_browser |-> FALSE, browser_type |-> "null", browser_truthy |-> FALSE]

Returns(v) == [kind |-> "return", value |-> v, exc |-> "none"]
Raises(x) == [kind |-> "raise", value |-> FALSE, exc |-> x]

\* lines 21-25, the try body: urlopen, read().decode, json.loads,
\* payload.get("Browser"), bool()
cdp_alive_body(r) ==
    IF r.transport # "ok"
    THEN Raises(CASE r.transport = "refused" -> "URLError"
                  [] r.transport = "timeout" -> "TimeoutError"
                  [] OTHER -> "HTTPError")
    ELSE IF ~r.decodes THEN Raises("UnicodeDecodeError")
    ELSE IF ~r.parses THEN Raises("JSONDecodeError")
    ELSE IF r.type # "object" THEN Raises("AttributeError")
    ELSE Returns(r.has_browser /\ r.browser_truthy)

\* mutant: the handler catches the errors of the HTTP exchange only
CdpAliveResultMutUrlErrorsOnly(b) ==
    IF b.kind = "return" THEN (IF b.value THEN "Alive" ELSE "Dead")
    ELSE IF b.exc \in {"URLError", "TimeoutError", "HTTPError"} THEN "Dead"
    ELSE "raised"

\* lines 20-27: the value returned, and `except Exception: return False`
cdp_alive_result(b) ==
    IF b.kind = "return" THEN (IF b.value THEN "Alive" ELSE "Dead") ELSE "Dead"

\* What the endpoint u answers in the main model: a browser that is not ours
\* or a spawned one that is ready serves /json/version, anything else
\* refuses the connection.
response_of(u) ==
    IF \/ u \in alive
       \/ u.host = "127.0.0.1"
          /\ \E i \in 1 .. Len(procs) : Serving(i) /\ procs[i].port = u.port
    THEN VersionResponse
    ELSE RefusedResponse

\* _cdp_alive(base_url): the request goes to base_url.rstrip("/")
cdp_alive(url) ==
    cdp_alive_result(cdp_alive_body(response_of(RStrip(url)))) = "Alive"

\* sock.connect_ex(("127.0.0.1", port)) == 0
port_open(p) ==
    \/ p \in listening
    \/ \E i \in 1 .. Len(procs) : Serving(i) /\ procs[i].port = p

\* ------------------------------------------------------- pure functions
\* build_browser: should_probe_existing
should_probe_existing(cfg) ==
    cfg.browser_mode \in {"auto", "own"} \/ cfg.connect_existing_cdp

\* mutant: the explicit URL is tried after the two local ones
CandidatesMutExplicitLast(cfg) ==
    (IF cfg.cdp_port # 0
     THEN <<Loopback(cfg.cdp_port), Localhost(cfg.cdp_port)>>
     ELSE << >>)
    \o (IF cfg.cdp_url # NoUrl THEN <<RStrip(cfg.cdp_url)>> ELSE << >>)

\* _resolve_existing_cdp_url: the candidate list, before deduplication
candidates(cfg) ==
    (IF cfg.cdp_url # NoUrl THEN <<RStrip(cfg.cdp_url)>> ELSE << >>)
    \o (IF cfg.cdp_port # 0
        THEN <<Loopback(cfg.cdp_port), Localhost(cfg.cdp_port)>>
        ELSE << >>)

CandidateSet(cfg) == {candidates(cfg)[k] : k \in 1 .. Len(candidates(cfg))}

\* mutant: the hint names the default port, not the configured one
ManualHintMutDefaultPort(system, p) ==
    [cmd |-> IF system = "windows" THEN "chrome" ELSE "google-chrome", port |-> 9222]

\* platform.system() and the command _manual_cdp_start_hint builds for it
Systems == {"windows", "darwin", "linux"}
manual_cdp_start_hint(system, p) ==
    [cmd |-> CASE system = "windows" -> "chrome"
               [] system = "darwin" -> "open -a Google Chrome --args"
               [] OTHER -> "google-chrome",
     port |-> p]

\* mutant: every handle is labelled as an attached one
RuntimeModeMutOwn(mode, active) == "own"

\* mutant: the handle reports the configured mode, not the resolved one
RuntimeModeMutConfigured(mode, active) == mode

\* BrowserRuntime(mode=active_mode if mode == "auto" else mode, ...)
runtime_mode(mode, active) == IF mode = "auto" THEN active ELSE mode

\* ------------------------------------------------------------------ Init
Worlds(cfg) ==
    {w \in [listening : SUBSET Ports, alive : SUBSET CandidateSet(cfg)] :
        \A u \in w.alive : u.host = "127.0.0.1" => u.port \in w.listening}

Init ==
    /\ config \in Configs
    /\ \E w \in Worlds(config) : listening = w.listening /\ alive = w.alive
    /\ envChanges = 0
    /\ procs = << >>
    /\ dirs = {}
    /\ now = 0
    /\ pc = "bb_start"
    /\ active_mode = config.browser_mode
    /\ cdp_url = NoUrl
    /\ launched_process = NoPid
    /\ existing_cdp = NoUrl
    /\ ci = 1
    /\ seen = {}
    /\ attempt = 0 /\ executable = NoExecutable
    /\ user_data_dir = << >>
    /\ port = 0
    /\ process = NoPid
    /\ deadline = 0
    /\ first_error = NoErr
    /\ error = NoErr
    /\ handle = NoHandle
    /\ log = << >>
    /\ base_url = NoUrl /\ response = RefusedResponse /\ verdict = "none"
    /\ keep_alive = FALSE
    /\ agent_outcome = "none"
    /\ in_flight = "none"
    /\ exit_status = -1
    /\ provider = AutoProvider /\ environ = NoKeys
    /\ selected = "none" /\ accepted = "none"
    /\ raw_mode = Spelling(config.browser_mode)

\* --------------------------------------------------------- build_browser
Terminal == pc \in {"returned", "raised"}

\* build_browser, lines 264-270: the locals and the decision to probe
BBStart ==
    /\ pc = "bb_start"
    /\ active_mode' = config.browser_mode
    /\ cdp_url' = NoUrl
    /\ launched_process' = NoPid
    /\ IF should_probe_existing(config)
       THEN /\ pc' = "resolve"
            /\ ci' = 1
            /\ seen' = {}
            /\ UNCHANGED existing_cdp
       ELSE /\ pc' = "bb_mode"
            /\ existing_cdp' = NoUrl
            /\ UNCHANGED resLocals
    /\ UNCHANGED <<provVars, probeVars, runVars>>
    /\ UNCHANGED <<config, world, procs, dirs, now, lnLocals, error, handle, log>>

\* _resolve_existing_cdp_url: one iteration of the loop over the candidates
ResolveStep ==
    /\ pc = "resolve"
    /\ LET c == candidates(config) IN
       IF ci > Len(c)
       THEN /\ existing_cdp' = NoUrl
            /\ pc' = "bb_mode"
            /\ UNCHANGED <<ci, seen, log>>
       ELSE IF c[ci] \in seen
       THEN /\ ci' = ci + 1
            /\ UNCHANGED <<existing_cdp, pc, seen, log>>
       ELSE /\ seen' = seen \cup {c[ci]}
            /\ log' = Append(log, Ev("probe", c[ci], 0, NoPid, cdp_alive(c[ci])))
            /\ IF cdp_alive(c[ci])
               THEN /\ existing_cdp' = c[ci]
                    /\ pc' = "bb_mode"
                    /\ UNCHANGED ci
               ELSE /\ ci' = ci + 1
                    /\ UNCHANGED <<existing_cdp, pc>>
    /\ UNCHANGED <<provVars, probeVars, runVars>>
    /\ UNCHANGED <<config, world, procs, dirs, now, active_mode, cdp_url,
                   launched_process, lnLocals, error, handle>>

\* mutant: the test of the probe's result is inverted
AutoResolutionMutInverted(existing) == IF existing = NoUrl THEN "own" ELSE "fresh"

\* lines 272-279: what Auto becomes
auto_resolution(existing) == IF existing # NoUrl THEN "own" ELSE "fresh"

\* mutant: Own goes on without a live endpoint
OwnFailsMutNever(mode, existing) == FALSE

\* lines 281-282: Own without a live endpoint raises
own_fails(mode, existing) == mode = "own" /\ existing = NoUrl

\* mutant: only an Auto that resolved to Fresh launches
MustLaunchMutAutoOnly(mode, active) == mode = "auto" /\ active = "fresh"

\* line 293: whether the launcher is called
must_launch(mode, active) == mode = "fresh" \/ active = "fresh"

\* line 296
managed_mode(mode, active) == mode = "managed" \/ active = "managed"

\* build_browser, lines 272-294: Auto's resolution, Own's requirement, and
\* the decision to launch
BBMode ==
    /\ pc = "bb_mode"
    /\ LET mode == config.browser_mode
           act == IF mode = "auto" THEN auto_resolution(existing_cdp) ELSE active_mode
       IN
       /\ active_mode' = act
       /\ IF own_fails(mode, existing_cdp)
          THEN /\ \E system \in Systems :
                    error' = Err("NoLiveEndpoint", -1,
                                 manual_cdp_start_hint(system, config.cdp_port))
               /\ pc' = "raised"
               /\ UNCHANGED cdp_url
          ELSE /\ cdp_url' = IF (mode = "auto" /\ existing_cdp # NoUrl) \/ mode = "own"
                             THEN existing_cdp ELSE cdp_url
               /\ pc' = IF must_launch(mode, act) THEN "launch" ELSE "bb_build"
               /\ UNCHANGED error
    /\ UNCHANGED <<provVars, probeVars, runVars>>
    /\ UNCHANGED <<config, world, procs, dirs, now, launched_process, existing_cdp,
                   resLocals, lnLocals, handle, log>>

\* build_browser, lines 296-312: the managed override, the profile and the
\* Browser object (either constructor may raise), the returned BrowserRuntime
BBBuild ==
    /\ pc = "bb_build"
    /\ LET mode == config.browser_mode
           url == IF managed_mode(mode, active_mode) THEN NoUrl ELSE cdp_url
       IN
       /\ cdp_url' = url
       /\ \/ /\ handle' = [mode |-> runtime_mode(mode, active_mode),
                            cdp_url |-> url,
                            launched_process |-> launched_process]
             /\ pc' = "returned"
             /\ UNCHANGED error
          \/ /\ error' = Err("BuildFailed", -1, NoHint)
             /\ pc' = "raised"
             /\ UNCHANGED handle
    /\ UNCHANGED <<provVars, probeVars, runVars>>
    /\ UNCHANGED <<config, world, procs, dirs, now, active_mode, launched_process,
                   existing_cdp, resLocals, lnLocals, log>>

\* ------------------------------------------- _launch_fresh_chrome_for_cdp
NewProc(p, d) == [port |-> p, dir |-> d, state |-> "running", ready |-> FALSE,
                  code |-> -1, termReq |-> FALSE, killReq |-> FALSE]

\* mutant: the retry reuses the base directory
AttemptRaisesMutSameDir(e) ==
    IF attempt = 1
    THEN /\ first_error' = e
         /\ attempt' = 2
         /\ user_data_dir' = BaseDir
         /\ pc' = "lp_port"
         /\ UNCHANGED error
    ELSE /\ error' = WithContext(e, first_error)
         /\ pc' = "raised"
         /\ UNCHANGED <<first_error, attempt, user_data_dir>>

\* mutant: after a failed first attempt the negotiation starts over
AttemptRaisesMutRenegotiates(e) ==
    IF attempt = 1
    THEN /\ first_error' = e
         /\ attempt' = 2
         /\ \E t \in WallClock : user_data_dir' = RetryDir(BaseDir, t)
         /\ pc' = "bb_start"
         /\ UNCHANGED error
    ELSE /\ error' = WithContext(e, first_error)
         /\ pc' = "raised"
         /\ UNCHANGED <<first_error, attempt, user_data_dir>>

\* lines 180-190: an exception of the first attempt is handled by one retry
\* in a directory named after the wall clock; one of the retry, raised inside
\* that handler, leaves the launcher and build_browser.
AttemptRaises(e) ==
    IF attempt = 1
    THEN /\ first_error' = e
         /\ attempt' = 2
         /\ \E t \in WallClock : user_data_dir' = RetryDir(BaseDir, t)
         /\ pc' = "lp_port"
         /\ UNCHANGED error
    ELSE /\ error' = WithContext(e, first_error)
         /\ pc' = "raised"
         /\ UNCHANGED <<first_error, attempt, user_data_dir>>

\* What the file system holds at the place(s) _find_chrome_executable looks:
\* nothing, a file the system can execute, or a path that exists but cannot
\* be executed (a directory, a file without the permission, a text file).
\* Path.exists() and shutil.which tell the first from the others; lines
\* 46 and 88 do not tell the last two apart.
FoundFiles == {"runnable", "unrunnable"}

\* lines 44-50, 87-93: FileNotFoundError when nothing exists at the path(s)
lookup_fails(f) == f = "missing"

\* lines 122-123, 181: the executable is looked up, then the first attempt
\* starts in the base directory
Launch ==
    /\ pc = "launch"
    /\ \E f \in FoundFiles \cup {"missing"} :
          IF lookup_fails(f)
          THEN /\ error' = Err("ExecutableNotFound", -1, NoHint)
               /\ pc' = "raised"
               /\ UNCHANGED <<attempt, user_data_dir, executable>>
          ELSE /\ executable' = f
               /\ attempt' = 1
               /\ user_data_dir' = BaseDir
               /\ pc' = "lp_port"
               /\ UNCHANGED error
    /\ UNCHANGED <<provVars, probeVars, runVars>>
    /\ UNCHANGED <<config, world, procs, dirs, now, bbLocals, resLocals, port,
                   process, deadline, first_error, handle, log>>

\* mutant: the desired port is used whatever its test said
DesiredTakenMutNever(open) == FALSE

\* line 129: `if _port_open(desired_port)`
desired_taken(open) == open

\* _launch_with_profile_dir, lines 126-137: mkdir, then the desired port is
\* tested
AttemptPort ==
    /\ pc = "lp_port"
    /\ dirs' = dirs \cup {user_data_dir}
    /\ LET desired_port == config.cdp_port IN
       /\ log' = Append(log, Ev("porttest", NoUrl, desired_port, NoPid,
                                port_open(desired_port)))
       /\ IF desired_taken(port_open(desired_port))
          THEN port' = desired_port + 1 /\ pc' = "lp_scan"
          ELSE port' = desired_port /\ pc' = "lp_spawn"
    /\ UNCHANGED <<provVars, probeVars, runVars>>
    /\ UNCHANGED <<config, world, procs, now, bbLocals, resLocals, attempt,
                   user_data_dir, process, deadline, executable, first_error,
                   error, handle>>

\* mutant: the scan takes the first port that accepts a connection
PortIsFreeMutInverted(p) == port_open(p)

\* line 38: the test _find_free_port applies to each port of the range
port_is_free(p) == ~port_open(p)

\* _find_free_port, lines 36-40: one iteration of the scan
ScanStep ==
    /\ pc = "lp_scan"
    /\ IF port > ScanStop
       THEN /\ AttemptRaises(Err("ResourceExhausted", -1, NoHint))
            /\ UNCHANGED <<port, log>>
       ELSE /\ log' = Append(log, Ev("porttest", NoUrl, port, NoPid, port_open(port)))
            /\ IF port_is_free(port)
               THEN port' = port /\ pc' = "lp_spawn"
               ELSE port' = port + 1 /\ pc' = "lp_scan"
            /\ UNCHANGED <<attempt, user_data_dir, first_error, error>>
    /\ UNCHANGED <<provVars, probeVars, runVars>>
    /\ UNCHANGED <<config, world, procs, dirs, now, bbLocals, resLocals,
                   process, deadline, executable, handle>>

\* mutant: the endpoint keeps the configured port after a reallocation
LaunchCdpUrlMutDesired(p) == Loopback(config.cdp_port)

\* line 156: the endpoint of the process being launched
launch_cdp_url(p) == Loopback(p)

\* line 150: subprocess.Popen raises an OSError (PermissionError, "Exec
\* format error", ...) in the caller when the file cannot be executed
popen_raises(x) == x = "unrunnable"

\* lines 139-157: Popen, the endpoint URL, the deadline
Spawn ==
    /\ pc = "lp_spawn"
    /\ IF popen_raises(executable)
       THEN /\ AttemptRaises(Err("SpawnFailed", -1, NoHint))
            /\ UNCHANGED <<procs, process, deadline, log>>
       ELSE /\ procs' = Append(procs, NewProc(port, user_data_dir))
            /\ process' = Len(procs) + 1
            /\ deadline' = now + StartTimeout
            /\ log' = Append(log, Ev("spawn", launch_cdp_url(port), port,
                                     Len(procs) + 1, TRUE))
            /\ pc' = "lp_loop"
            /\ UNCHANGED <<attempt, user_data_dir, first_error, error>>
    /\ UNCHANGED <<provVars, probeVars, runVars>>
    /\ UNCHANGED <<config, world, dirs, now, bbLocals, resLocals, port,
                   executable, handle>>

\* mutant: one more round at the deadline itself
BeforeDeadlineMutInclusive(t, d) == t <= d

\* line 158: the loop condition, time.monotonic() < deadline
before_deadline(t, d) == t < d

\* mutant: the endpoint is taken to be up without looking at the answer
EndpointReadyMutAssumed(a) == TRUE

\* line 159: `if _cdp_alive(cdp_url)`
endpoint_ready(a) == a

\* lines 158-165: the loop condition and the probe of the new endpoint
PollProbe ==
    /\ pc = "lp_loop"
    /\ IF before_deadline(now, deadline)
       THEN /\ log' = Append(log, Ev("probe", launch_cdp_url(port), 0, process,
                                     cdp_alive(launch_cdp_url(port))))
            /\ IF endpoint_ready(cdp_alive(launch_cdp_url(port)))
               THEN /\ launched_process' = process
                    /\ cdp_url' = launch_cdp_url(port)
                    /\ pc' = "bb_build"
               ELSE /\ pc' = "lp_poll"
                    /\ UNCHANGED <<launched_process, cdp_url>>
       ELSE /\ pc' = "lp_timeout"
            /\ UNCHANGED <<launched_process, cdp_url, log>>
    /\ UNCHANGED <<provVars, probeVars, runVars>>
    /\ UNCHANGED <<config, world, procs, dirs, now, active_mode, existing_cdp,
                   resLocals, lnLocals, error, handle>>

\* lines 166-170: process.poll(), then the sleep
PollExit ==
    /\ pc = "lp_poll"
    /\ IF ~Running(process)
       THEN /\ AttemptRaises(Err("ProcessExitedEarly", procs[process].code, NoHint))
            /\ UNCHANGED now
       ELSE /\ now' = now + 1
            /\ pc' = "lp_loop"
            /\ UNCHANGED <<attempt, user_data_dir, first_error, error>>
    /\ UNCHANGED <<provVars, probeVars, runVars>>
    /\ UNCHANGED <<config, world, procs, dirs, bbLocals, resLocals, port,
                   process, deadline, executable, handle, log>>

\* mutant: the timed-out process is left alone
TerminateMutSkipped(ps, i) == ps

\* Popen.terminate(): the signal reaches a process that is still running
Terminate(ps, i) ==
    IF ps[i].state = "running" THEN [ps EXCEPT ![i].termReq = TRUE] ELSE ps

\* lines 172-178: terminate, errors of it swallowed, then the timeout error
StartupTimeoutStep ==
    /\ pc = "lp_timeout"
    /\ procs' = Terminate(procs, process)
    /\ log' = Append(log, Ev("terminate", NoUrl, 0, process, Running(process)))
    /\ AttemptRaises(Err("StartupTimeout", -1, NoHint))
    /\ UNCHANGED <<provVars, probeVars, runVars>>
    /\ UNCHANGED <<config, world, dirs, now, bbLocals, resLocals, port,
                   process, deadline, executable, handle>>

\* KeyboardInterrupt: not an Exception, so neither the retry handler nor
\* anything else in build_browser catches it
Negotiating ==
    pc \in {"bb_start", "resolve", "bb_mode", "launch", "lp_port", "lp_scan",
            "lp_spawn", "lp_loop", "lp_poll", "lp_timeout", "bb_build"}

Interrupt ==
    /\ Negotiating
    /\ error' = Err("KeyboardInterrupt", -1, NoHint)
    /\ pc' = "raised"
    /\ UNCHANGED <<provVars, probeVars, runVars>>
    /\ UNCHANGED <<config, world, procs, dirs, now, bbLocals, resLocals,
                   lnLocals, handle, log>>

\* ------------------------------------------------- _run after build_browser
AgentOutcomes == {"ok", "Exception", "KeyboardInterrupt"}

\* mutant: an error of build_browser is swallowed and the agent runs anyway
AgentMayStartMutAfterError(p) == p \in {"returned", "raised"}

\* runner.py lines 92-106: build_browser is called outside any try, so the
\* Agent is built only when it has returned
agent_may_start(p) == p = "returned"

\* runner.py lines 93-132: the Agent is built and run; the try body ends
\* normally, with an error, or interrupted. config.keep_alive is read when
\* the finally clause needs it, so its value is drawn here.
RunAgent ==
    /\ agent_may_start(pc)
    /\ \E k \in BOOLEAN : keep_alive' = k
    /\ \E o \in AgentOutcomes :
          /\ agent_outcome' = o
          /\ in_flight' = IF o = "ok" THEN "none" ELSE o
    /\ pc' = "stop"
    /\ UNCHANGED <<provVars, probeVars, exit_status, raw_mode>>
    /\ UNCHANGED <<config, world, procs, dirs, now, bbLocals, resLocals,
                   lnLocals, error, handle, log>>

\* mutant: a failing browser.stop() replaces whatever was in flight
StopHandlerMutPropagates(flying, ok) == IF ok THEN flying ELSE "Exception"

\* runner.py lines 134-137: an Exception of browser.stop() is logged and
\* dropped, so what was in flight stays in flight
stop_handler(flying, ok) == flying

\* mutant: cleanup is reached only when browser.stop() went through
AfterStopMutSkipsOnFailure(ok) == IF ok THEN "cleanup" ELSE "run_end"

\* runner.py lines 133-138: cleanup is the statement after the try/except
\* around browser.stop()
after_stop(ok) == "cleanup"

\* runner.py lines 133-137: await browser.stop()
BrowserStop ==
    /\ pc = "stop"
    /\ \E ok \in BOOLEAN :
          /\ log' = Append(log, Ev("stop", NoUrl, 0, NoPid, ok))
          /\ in_flight' = stop_handler(in_flight, ok)
          /\ pc' = after_stop(ok)
    /\ UNCHANGED <<provVars, probeVars, keep_alive, agent_outcome, exit_status, raw_mode>>
    /\ UNCHANGED <<config, world, procs, dirs, now, bbLocals, resLocals,
                   lnLocals, error, handle>>

\* ------------------------------------------------- BrowserRuntime.cleanup
\* mutant: keep_alive is not consulted
CleanupSkipsMutIgnoresKeepAlive(keep, lp) == lp = NoPid

\* line 219: `if keep_alive or not self.launched_process`
cleanup_skips(keep, lp) == keep \/ lp = NoPid

\* mutant: the process is signalled whether or not it has exited
AlreadyExitedMutNever(ps, lp) == FALSE

\* lines 222-223: `if process.poll() is not None`
already_exited(ps, lp) == ps[lp].state # "running"

\* mutant: the forced kill comes first
FirstSignalMutKill(ok) == "c_kill"

\* lines 225-228: after terminate() the wait follows; if terminate()
\* raised, the handler with the kill does
after_terminate(ok) == IF ok THEN "c_wait" ELSE "c_kill"

\* lines 218-225: the guards, then process.terminate()
CleanupEnter ==
    /\ pc = "cleanup"
    /\ LET lp == handle.launched_process
           called == Append(log, Ev("cleanup", NoUrl, 0, lp, keep_alive))
       IN
       IF cleanup_skips(keep_alive, lp)
       THEN pc' = "run_end" /\ log' = called /\ UNCHANGED procs
       ELSE LET polled == Append(called, Ev("c_poll", NoUrl, 0, lp, Running(lp))) IN
            IF already_exited(procs, lp)
            THEN pc' = "run_end" /\ log' = polled /\ UNCHANGED procs
            ELSE \E ok \in BOOLEAN :
                    /\ procs' = IF ok THEN Terminate(procs, lp) ELSE procs
                    /\ log' = Append(polled, Ev("c_terminate", NoUrl, 0, lp, ok))
                    /\ pc' = after_terminate(ok)
    /\ UNCHANGED <<provVars, probeVars, runVars>>
    /\ UNCHANGED <<config, world, dirs, now, bbLocals, resLocals, lnLocals,
                   error, handle>>

\* lines 226-228: process.wait(timeout=5) returns when the process has
\* exited within the grace period and raises TimeoutExpired otherwise
CleanupWait ==
    /\ pc = "c_wait"
    /\ LET lp == handle.launched_process IN
       /\ log' = Append(log, Ev("c_wait", NoUrl, 0, lp, ~Running(lp)))
       /\ pc' = IF ~Running(lp) THEN "run_end" ELSE "c_kill"
    /\ UNCHANGED <<provVars, probeVars, runVars>>
    /\ UNCHANGED <<config, world, procs, dirs, now, bbLocals, resLocals,
                   lnLocals, error, handle>>

\* Popen.kill(): the signal reaches a process that is still running
Kill(ps, i) ==
    IF ps[i].state = "running" THEN [ps EXCEPT ![i].killReq = TRUE] ELSE ps

\* lines 228-233: process.kill(); an Exception of it is logged and dropped
CleanupKill ==
    /\ pc = "c_kill"
    /\ LET lp == handle.launched_process IN
       \E ok \in BOOLEAN :
          /\ procs' = IF ok THEN Kill(procs, lp) ELSE procs
          /\ log' = Append(log, Ev("c_kill", NoUrl, 0, lp, ok))
    /\ pc' = "run_end"
    /\ UNCHANGED <<provVars, probeVars, runVars>>
    /\ UNCHANGED <<config, world, dirs, now, bbLocals, resLocals, lnLocals,
                   error, handle>>

\* ------------------------------------------------------------------- main
\* mutant: an interrupt is reported like any other failure
MainStatusMutInterruptIsError(exc) == IF exc = "none" THEN 0 ELSE 1

\* runner.py lines 234-243: 0 when _run returned, 130 on KeyboardInterrupt,
\* 1 on any other exception
main_status(exc) ==
    IF exc = "none" THEN 0 ELSE IF exc = "KeyboardInterrupt" THEN 130 ELSE 1

MainExit ==
    /\ pc \in {"raised", "run_end"}
    /\ exit_status' = main_status(IF pc = "raised" THEN error.kind ELSE in_flight)
    /\ pc' = "done"
    /\ UNCHANGED <<provVars, probeVars, keep_alive, agent_outcome, in_flight, raw_mode>>
    /\ UNCHANGED <<config, world, procs, dirs, now, bbLocals, resLocals,
                   lnLocals, error, handle, log>>

\* ------------------------------------------------------- the environment
\* the spawned browser binds its port and starts to answer; after the
\* negotiation nothing connects to it any more
ProcReady(i) ==
    /\ Negotiating \/ Terminal
    /\ Running(i) /\ ~procs[i].ready
    /\ ~port_open(procs[i].port)
    /\ procs' = [procs EXCEPT ![i].ready = TRUE]
    /\ UNCHANGED <<provVars, probeVars, runVars>>
    /\ UNCHANGED <<config, world, dirs, now, pc, bbLocals, resLocals, lnLocals,
                   error, handle, log>>

\* the spawned browser exits: by itself, or because it was signalled; during
\* shutdown only cleanup looks, and only at the process of the handle
ProcExit(i, c) ==
    /\ \/ Negotiating \/ Terminal
       \/ pc \in {"cleanup", "c_wait"} /\ i = handle.launched_process
    /\ Running(i)
    /\ procs' = [procs EXCEPT ![i].state = "exited", ![i].code = c]
    /\ UNCHANGED <<provVars, probeVars, runVars>>
    /\ UNCHANGED <<config, world, dirs, now, pc, bbLocals, resLocals, lnLocals,
                   error, handle, log>>

OwnPort(p) == \E i \in 1 .. Len(procs) : Serving(i) /\ procs[i].port = p

\* another program starts or stops listening, another browser comes or goes;
\* placed right before the program reads a port or an endpoint, where alone
\* it can be told from a change that came earlier
EnvChange ==
    /\ pc \in {"resolve", "lp_port", "lp_scan", "lp_loop"}
    /\ envChanges < MaxEnvChanges
    /\ envChanges' = envChanges + 1
    /\ \/ \E p \in Ports \ listening :
            ~OwnPort(p) /\ listening' = listening \cup {p} /\ UNCHANGED alive
       \/ \E p \in listening :
            /\ listening' = listening \ {p}
            /\ alive' = alive \ {Loopback(p)}
       \/ \E u \in CandidateSet(config) \ alive :
            /\ u.host = "127.0.0.1" => ~OwnPort(u.port)
            /\ alive' = alive \cup {u}
            /\ listening' = IF u.host = "127.0.0.1"
                            THEN listening \cup {u.port} ELSE listening
       \/ \E u \in alive : alive' = alive \ {u} /\ UNCHANGED listening
    /\ UNCHANGED <<provVars, probeVars, runVars>>
    /\ UNCHANGED <<config, procs, dirs, now, pc, bbLocals, resLocals, lnLocals,
                   error, handle, log>>

Next ==
    \/ BBStart
    \/ ResolveStep
    \/ BBMode
    \/ Launch
    \/ AttemptPort
    \/ ScanStep
    \/ Spawn
    \/ PollProbe
    \/ PollExit
    \/ StartupTimeoutStep
    \/ BBBuild
    \/ Interrupt
    \/ \E i \in 1 .. Len(procs) : ProcReady(i)
    \/ \E i \in 1 .. Len(procs), c \in ExitCodes : ProcExit(i, c)

\* One run on a machine whose other programs stay as they are meanwhile.
Spec == Init /\ [][Next]_vars

\* ------------------------------------------------------ the whole run
\* The configurations with the default connect_existing_cdp and no explicit
\* URL.
InitRun ==
    /\ Init
    /\ config.connect_existing_cdp /\ config.cdp_url = NoUrl

NextRun ==
    \/ Next
    \/ RunAgent
    \/ BrowserStop
    \/ CleanupEnter
    \/ CleanupWait
    \/ CleanupKill
    \/ MainExit

\* main from build_browser to its return value: the negotiation, the agent,
\* the shutdown and the exit status.
SpecRun == InitRun /\ [][NextRun]_vars

\* ------------------------------------------------ the polling loop, fair
\* The steps of the readiness loop: each probe returns within its timeout,
\* poll() and sleep() return, and the loop goes on to its next statement.
PollStep == PollProbe \/ PollExit \/ StartupTimeoutStep

InitLive == Init /\ config.connect_existing_cdp /\ config.cdp_url = NoUrl

\* The negotiation with a polling loop that keeps running.
SpecLive == InitLive /\ [][Next]_vars /\ WF_vars(PollStep)

\* ------------------------------------------------- main before _run
ValidSpellings == {Spelling(m) : m \in VALID_BROWSER_MODES}
ModeOf(str) == CHOOSE m \in VALID_BROWSER_MODES : Spelling(m) = str

\* main with BROWSER_MODE as the environment gives it; until validate stores
\* the normalised mode, config.browser_mode is a placeholder and the text
\* is in raw_mode.
InitMain ==
    /\ raw_mode \in RawModes
    /\ config \in [browser_mode : {"unvalidated"}, connect_existing_cdp : {TRUE},
                   cdp_url : {NoUrl}, cdp_port : CdpPorts]
    /\ \E w \in Worlds(config) :
          /\ w.listening \subseteq {config.cdp_port}
          /\ listening = w.listening /\ alive = w.alive
    /\ envChanges = 0
    /\ procs = << >> /\ dirs = {} /\ now = 0
    /\ pc = "main"
    /\ active_mode = config.browser_mode
    /\ cdp_url = NoUrl /\ launched_process = NoPid /\ existing_cdp = NoUrl
    /\ ci = 1 /\ seen = {}
    /\ attempt = 0 /\ executable = NoExecutable
    /\ user_data_dir = << >> /\ port = 0 /\ process = NoPid
    /\ deadline = 0 /\ first_error = NoErr
    /\ error = NoErr /\ handle = NoHandle /\ log = << >>
    /\ base_url = NoUrl /\ response = RefusedResponse /\ verdict = "none"
    /\ keep_alive = FALSE /\ agent_outcome = "none" /\ in_flight = "none"
    /\ exit_status = -1
    /\ provider = AutoProvider /\ environ = NoKeys
    /\ selected = "none" /\ accepted = "none"

\* runner.py lines 198-202 and 225-229 with config.py lines 214-243: an
\* exception of from_env makes main return 2; validate() checks the
\* normalised mode first and stores it, then checks the other settings; any
\* exception of it makes main return 2
Validate ==
    /\ pc = "main"
    /\ \/ exit_status' = 2 /\ pc' = "done" /\ UNCHANGED config
       \/ LET browser_mode == Lower(Strip(raw_mode)) IN
          IF browser_mode \notin ValidSpellings
          THEN exit_status' = 2 /\ pc' = "done" /\ UNCHANGED config
          ELSE /\ config' = [config EXCEPT !.browser_mode = ModeOf(browser_mode)]
               /\ \/ pc' = "bb_start" /\ UNCHANGED exit_status
                  \/ pc' = "done" /\ exit_status' = 2
    /\ UNCHANGED <<provVars, probeVars, keep_alive, agent_outcome, in_flight, raw_mode>>
    /\ UNCHANGED <<world, procs, dirs, now, bbLocals, resLocals, lnLocals,
                   error, handle, log>>

NextMain == Validate \/ NextRun

\* main from the validation of the configuration to its return value.
SpecMain == InitMain /\ [][NextMain]_vars

\* ------------------------------------- provider settings on their own
InitProvider ==
    /\ provider \in RawProviders
    /\ environ \in [EnvNames -> RawValues]
    /\ selected = "none" /\ accepted = "none"
    /\ pc = "p_env"
    /\ config \in {c \in Configs : c.browser_mode = "managed" /\ c.cdp_url = NoUrl
                                   /\ c.connect_existing_cdp}
    /\ listening = {} /\ alive = {} /\ envChanges = 0
    /\ procs = << >> /\ dirs = {} /\ now = 0
    /\ active_mode = config.browser_mode
    /\ cdp_url = NoUrl /\ launched_process = NoPid /\ existing_cdp = NoUrl
    /\ ci = 1 /\ seen = {}
    /\ attempt = 0 /\ executable = NoExecutable
    /\ user_data_dir = << >> /\ port = 0 /\ process = NoPid
    /\ deadline = 0 /\ first_error = NoErr
    /\ error = NoErr /\ handle = NoHandle /\ log = << >>
    /\ base_url = NoUrl /\ response = RefusedResponse /\ verdict = "none"
    /\ keep_alive = FALSE /\ agent_outcome = "none" /\ in_flight = "none"
    /\ exit_status = -1 /\ raw_mode = Spelling(config.browser_mode)

\* config.py line 248: from_env starts with the aliases
NormalizeAliases ==
    /\ pc = "p_env"
    /\ environ' = normalize_api_key_aliases(environ)
    /\ pc' = "p_resolve"
    /\ UNCHANGED <<provider, selected, accepted>>
    /\ UNCHANGED <<config, world, procs, dirs, now, bbLocals, resLocals,
                   lnLocals, error, handle, log, probeVars, runVars>>

\* config.py line 223: validate() asks resolved_provider
ResolveProvider ==
    /\ pc = "p_resolve"
    /\ selected' = resolved_provider(provider, environ)
    /\ IF selected' = "ValueError"
       THEN accepted' = "rejected" /\ pc' = "p_done"
       ELSE pc' = "p_check" /\ UNCHANGED accepted
    /\ UNCHANGED <<provider, environ>>
    /\ UNCHANGED <<config, world, procs, dirs, now, bbLocals, resLocals,
                   lnLocals, error, handle, log, probeVars, runVars>>

\* config.py lines 224-231: the key of the selected provider must be there
CheckCredential ==
    /\ pc = "p_check"
    /\ accepted' = IF key_missing(selected, environ) THEN "rejected" ELSE "ok"
    /\ pc' = "p_done"
    /\ UNCHANGED <<provider, environ, selected>>
    /\ UNCHANGED <<config, world, procs, dirs, now, bbLocals, resLocals,
                   lnLocals, error, handle, log, probeVars, runVars>>

NextProvider == NormalizeAliases \/ ResolveProvider \/ CheckCredential

\* from_env's aliases, then the provider part of validate().
SpecProvider == InitProvider /\ [][NextProvider]_vars

\* ------------------------------------------------ _cdp_alive on its own
ProbeArguments ==
    UNION {{Loopback(p), Url("127.0.0.1", p, TRUE), Localhost(p)} : p \in CdpPorts}
        \cup {Remote}

InitProbe ==
    /\ config \in {c \in Configs : c.browser_mode = "own" /\ c.cdp_url = NoUrl
                                   /\ c.connect_existing_cdp}
    /\ listening = {} /\ alive = {} /\ envChanges = 0
    /\ procs = << >> /\ dirs = {} /\ now = 0
    /\ pc = "cdp_alive"
    /\ active_mode = config.browser_mode
    /\ cdp_url = NoUrl /\ launched_process = NoPid /\ existing_cdp = NoUrl
    /\ ci = 1 /\ seen = {}
    /\ attempt = 0 /\ executable = NoExecutable
    /\ user_data_dir = << >> /\ port = 0 /\ process = NoPid
    /\ deadline = 0 /\ first_error = NoErr
    /\ error = NoErr /\ handle = NoHandle /\ log = << >>
    /\ base_url \in ProbeArguments
    /\ response \in Responses
    /\ verdict = "none"
    /\ keep_alive = FALSE /\ agent_outcome = "none" /\ in_flight = "none"
    /\ exit_status = -1
    /\ provider = AutoProvider /\ environ = NoKeys
    /\ selected = "none" /\ accepted = "none"
    /\ raw_mode = Spelling(config.browser_mode)

\* _cdp_alive, lines 20-27, against an endpoint that answers `response`
CdpAliveCall ==
    /\ pc = "cdp_alive"
    /\ verdict = "none"
    /\ verdict' = cdp_alive_result(cdp_alive_body(response))
    /\ UNCHANGED <<config, world, procs, dirs, now, pc, bbLocals, resLocals,
                   lnLocals, error, handle, log, base_url, response, runVars,
                   provVars>>

\* _cdp_alive called once with any argument against any answer.
SpecProbe == InitProbe /\ [][CdpAliveCall]_vars

\* One run on a machine whose other programs change up to MaxEnvChanges times.
NextEnv == Next \/ EnvChange
SpecEnv == Init /\ [][NextEnv]_vars

\* ================================================================ claims
Returned == pc = "returned"
Raised(k) == pc = "raised" /\ error.kind = k
LiveCandidates == CandidateSet(config) \cap alive
Probes == {k \in 1 .. Len(log) : log[k].ev = "probe" /\ log[k].pid = NoPid}
Spawns == {k \in 1 .. Len(log) : log[k].ev = "spawn"}

\* C1: a returned handle carries a launched process exactly when its mode is
\* fresh; own and managed handles carry none, and a fresh handle (configured
\* or resolved from auto) carries the process the launcher spawned.
C1_ProcessIffFresh ==
    Returned =>
        /\ (handle.launched_process # NoPid) <=> (handle.mode = "fresh")
        /\ handle.mode \in {"own", "managed"} => handle.launched_process = NoPid
        /\ handle.mode = "fresh" =>
              /\ config.browser_mode \in {"fresh", "auto"}
              /\ handle.launched_process \in 1 .. Len(procs)
              /\ handle.launched_process = process

C1_Witness ==
    /\ Returned
    /\ config.browser_mode = "auto"
    /\ handle.mode = "fresh"
    /\ handle.launched_process = 1

\* C2: a returned handle has an endpoint unless its mode is managed, and a
\* managed handle has none even when an explicit CDP URL is configured.
C2_EndpointUnlessManaged ==
    Returned =>
        /\ handle.mode # "managed" => handle.cdp_url # NoUrl
        /\ handle.mode = "managed" => handle.cdp_url = NoUrl

C2_Witness ==
    /\ Returned
    /\ handle.mode = "managed"
    /\ config.cdp_url # NoUrl
    /\ config.cdp_url \in alive
    /\ handle.cdp_url = NoUrl

\* C3: in managed mode no endpoint is probed and no process is spawned,
\* whatever connect_existing_cdp is.
C3_ManagedNoProbeNoSpawn ==
    config.browser_mode = "managed" => Probes = {} /\ Len(procs) = 0

\* C4: Auto becomes own when some candidate is alive and fresh otherwise,
\* whichever candidate it is, and the returned handle has the resolved mode.
C4_AutoBySetOfLive ==
    config.browser_mode = "auto" =>
        /\ active_mode # "auto" =>
              /\ active_mode \in {"own", "fresh"}
              /\ active_mode = "own" <=> LiveCandidates # {}
              /\ active_mode = "own" <=> \E k \in Probes : log[k].res
        /\ Returned => handle.mode = active_mode /\ handle.mode \in {"own", "fresh"}

C4_Witness ==
    /\ Returned
    /\ config.browser_mode = "auto"
    /\ config.cdp_url = Remote
    /\ alive = {Localhost(config.cdp_port)}
    /\ handle.mode = "own"

\* C5: in Own mode no process is ever spawned; with no live candidate the
\* run fails with NoLiveEndpoint, whose hint is a start command for the
\* configured port; with a live candidate the handle adopts a live endpoint
\* and owns no process.
C5_OwnAdoptsOrFails ==
    config.browser_mode = "own" =>
        /\ Len(procs) = 0 /\ Spawns = {} /\ dirs = {}
        /\ Raised("NoLiveEndpoint") =>
              /\ LiveCandidates = {}
              /\ error.hint.port = config.cdp_port
              /\ error.hint.cmd \in {"chrome", "open -a Google Chrome --args", "google-chrome"}
        /\ (LiveCandidates = {} /\ pc \notin {"bb_start", "resolve", "bb_mode"}) =>
              pc = "raised" /\ error.kind \in {"NoLiveEndpoint", "KeyboardInterrupt"}
        /\ Returned =>
              /\ handle.mode = "own"
              /\ handle.cdp_url \in LiveCandidates
              /\ handle.launched_process = NoPid

C5_Witness ==
    /\ config.browser_mode = "own"
    /\ config.cdp_url = Remote
    /\ alive = {} /\ listening = {}
    /\ Raised("NoLiveEndpoint")
    /\ error.hint.port = config.cdp_port

\* C6: in Fresh mode the launcher is called whether or not a candidate is
\* alive, and the handle's endpoint and process are the launcher's result.
C6_FreshAlwaysLaunches ==
    config.browser_mode = "fresh" =>
        /\ pc \in {"bb_build", "returned"} =>
              /\ attempt \in {1, 2}
              /\ launched_process = process /\ process \in 1 .. Len(procs)
              /\ cdp_url = Loopback(procs[process].port)
        /\ Returned =>
              /\ handle.mode = "fresh"
              /\ handle.launched_process = process
              /\ handle.cdp_url = Loopback(procs[process].port)

C6_Witness ==
    /\ Returned
    /\ config.browser_mode = "fresh"
    /\ LiveCandidates # {}
    /\ handle.launched_process # NoPid

\* C7: once build_browser has returned or raised, every process it spawned
\* that is still running is the one recorded in the handle the caller holds.
C7_NoOrphanAfterNegotiation ==
    Terminal =>
        \A i \in 1 .. Len(procs) :
            Running(i) => Returned /\ handle.launched_process = i

LaunchFailures == {"ProcessExitedEarly", "StartupTimeout", "ResourceExhausted",
                   "SpawnFailed"}

\* C8: a failure of the attempt in the base directory is followed by one
\* second attempt in another directory and never by a third: at most two
\* processes and one retry directory per negotiation.
C8_OneRetryOtherDir ==
    /\ attempt \in 0 .. 2
    /\ Len(procs) <= 2 /\ Cardinality(Spawns) = Len(procs)
    /\ Cardinality(dirs \ {BaseDir}) <= 1
    /\ (first_error # NoErr) <=> (attempt = 2)
    /\ attempt = 1 => user_data_dir = BaseDir
    /\ attempt = 2 => first_error.kind \in LaunchFailures /\ user_data_dir # BaseDir
    /\ error.kind \in LaunchFailures => attempt = 2
    /\ \A i \in 1 .. Len(procs) : procs[i].dir \in dirs
    /\ Len(procs) = 2 => procs[1].dir = BaseDir /\ procs[2].dir # BaseDir

C8_Witness ==
    /\ Returned
    /\ first_error.kind = "ProcessExitedEarly"
    /\ Len(procs) = 2
    /\ handle.launched_process = 2
    /\ Cardinality(dirs) = 2

\* C9: when both attempts fail, build_browser raises, and the raised error
\* is the second attempt's with the first attempt's as its context.
C9_BothFailuresCarried ==
    error.kind \in LaunchFailures =>
        /\ pc = "raised" /\ handle = NoHandle
        /\ attempt = 2
        /\ first_error.kind \in LaunchFailures
        /\ error.ctxKind = first_error.kind
        /\ error.ctxCode = first_error.code

C9_Witness ==
    /\ Raised("StartupTimeout")
    /\ error.ctxKind = "ProcessExitedEarly"
    /\ error.ctxCode \in ExitCodes

Terminations(i) == {k \in 1 .. Len(log) : log[k].ev = "terminate" /\ log[k].pid = i}

\* C10: the timeout branch is entered only with the deadline passed; an
\* attempt that failed with StartupTimeout has asked its process to
\* terminate, before the error left the attempt and before the retry's spawn.
C10_TerminateBeforeTimeoutError ==
    /\ pc = "lp_timeout" => now >= deadline /\ process \in 1 .. Len(procs)
    /\ first_error.kind = "StartupTimeout" =>
          /\ Terminations(1) # {}
          /\ \A k \in Terminations(1), j \in Spawns : log[j].pid # 1 => k < j
          /\ Running(1) => procs[1].termReq
    /\ error.kind = "StartupTimeout" =>
          /\ Terminations(process) # {}
          /\ Running(process) => procs[process].termReq

C10_Witness ==
    /\ first_error.kind = "StartupTimeout"
    /\ Len(procs) = 2
    /\ Running(1) /\ procs[1].termReq
    /\ Terminations(1) # {}

\* C11: a spawned process that exits before its endpoint was seen alive makes
\* its attempt fail with ProcessExitedEarly carrying the exit code, raised
\* before the deadline; in particular no attempt reaches the timeout branch,
\* and reports StartupTimeout, for a process that has already exited.
C11_ExitedEarlyNotTimeout ==
    /\ first_error.kind = "ProcessExitedEarly" =>
          ~Running(1) /\ first_error.code = procs[1].code
    /\ error.kind = "ProcessExitedEarly" =>
          /\ ~Running(process) /\ error.code = procs[process].code
          /\ now < deadline
    /\ \A k \in 1 .. Len(log) : log[k].ev = "terminate" => log[k].res

OwnPortBefore(i, q) == \E h \in 1 .. Len(procs) : h < i /\ procs[h].port = q

\* C12: when the desired port accepts a connection, the process is launched
\* on the next port above it that does not, and the returned endpoint
\* carries that port; when the desired port is free, it is the one used.
C12_ReallocatedPort ==
    /\ \A j \in Spawns :
          LET p == log[j].port
              d == config.cdp_port
          IN  /\ p \in d .. ScanStop
              /\ p \notin listening
              /\ log[j].url = Loopback(p)
              /\ procs[log[j].pid].port = p
              /\ j - 1 - (p - d) >= 1
              /\ \A q \in d .. p :
                    log[j - 1 - (p - q)] = Ev("porttest", NoUrl, q, NoPid, q # p)
              /\ \A q \in d .. p - 1 :
                    q \in listening \/ OwnPortBefore(log[j].pid, q)
    /\ (pc \in {"bb_build", "returned"} /\ launched_process # NoPid) =>
          cdp_url = Loopback(procs[launched_process].port)
    /\ (Returned /\ handle.mode = "fresh") =>
          handle.cdp_url = Loopback(procs[handle.launched_process].port)

C12_Witness ==
    /\ Returned
    /\ config.browser_mode = "fresh"
    /\ {config.cdp_port, config.cdp_port + 1} \subseteq listening
    /\ handle.launched_process = 1
    /\ procs[1].port = config.cdp_port + 2
    /\ handle.cdp_url = Loopback(config.cdp_port + 2)

ScanTested(q, k) == k >= 1 /\ log[k] = Ev("porttest", NoUrl, q, NoPid, TRUE)
Exhausted(e) == e.kind = "ResourceExhausted"

\* C13: the port _find_free_port returns refused the connection when it was
\* tested and is the lowest such port of the range: every lower port of the
\* range was tested before it, in order, and was found occupied; the scan
\* raises only when every port of the range was found occupied.
C13_LowestFreePort ==
    LET start == config.cdp_port + 1 IN
    /\ pc = "lp_scan" =>
          /\ port \in start .. ScanStop + 1
          /\ \A q \in config.cdp_port .. port - 1 :
                /\ ScanTested(q, Len(log) - (port - 1 - q))
                /\ q \in listening \/ OwnPortBefore(Len(procs) + 1, q)
    /\ (pc = "lp_spawn" /\ port # config.cdp_port) =>
          /\ port \in start .. ScanStop
          /\ log[Len(log)] = Ev("porttest", NoUrl, port, NoPid, FALSE)
          /\ port \notin listening
          /\ \A q \in start .. port - 1 :
                /\ ScanTested(q, Len(log) - (port - q))
                /\ q \in listening \/ OwnPortBefore(Len(procs) + 1, q)
    /\ (Exhausted(first_error) /\ attempt = 2 /\ pc = "lp_port") =>
          \A q \in start .. ScanStop :
              /\ ScanTested(q, Len(log) - (ScanStop - q))
              /\ q \in listening
    /\ Exhausted(error) =>
          \A q \in start .. ScanStop :
              /\ ScanTested(q, Len(log) - (ScanStop - q))
              /\ q \in listening \/ OwnPortBefore(Len(procs) + 1, q)

C13_Witness ==
    /\ pc = "lp_spawn"
    /\ attempt = 1
    /\ config.cdp_port + 1 \in listening
    /\ port = config.cdp_port + 2
    /\ port < ScanStop + 1

\* C14: when an attempt finds the desired port and every port above it up to
\* the upper bound occupied, the run ends with ResourceExhausted, and an
\* exhausted first attempt is followed by no spawn at all.
C14_ExhaustionIsFatal ==
    (/\ Terminal
     /\ error.kind # "KeyboardInterrupt"
     /\ Exhausted(first_error) \/ Exhausted(error)) =>
        /\ Raised("ResourceExhausted")
        /\ Exhausted(first_error) => Len(procs) = 0

\* The distinct candidates in first-seen order, written out case by case.
ExpectedOrder(cfg) ==
    LET lo == Loopback(cfg.cdp_port)
        lh == Localhost(cfg.cdp_port)
        x == [cfg.cdp_url EXCEPT !.slash = FALSE]
    IN  IF cfg.cdp_url = NoUrl \/ x = lo THEN <<lo, lh>>
        ELSE IF x = lh THEN <<lh, lo>>
        ELSE <<x, lo, lh>>

ResolveDone == pc \notin {"bb_start", "resolve"} /\ error.kind # "KeyboardInterrupt"

\* C16: the candidates are the explicit URL, then the 127.0.0.1 and the
\* localhost URL of the configured port; each distinct candidate is probed
\* at most once, in that order; the first one found alive is returned and
\* nothing is probed after it; with every candidate dead the result is none.
C16_FirstAliveInOrder ==
    LET order == ExpectedOrder(config)
        n == Cardinality(Probes)
    IN  /\ Probes = 1 .. n /\ n <= Len(order)
        /\ ~should_probe_existing(config) => n = 0
        /\ \A k \in Probes :
              /\ log[k].url = order[k]
              /\ log[k].res <=> order[k] \in alive
              /\ log[k].res => k = n
        /\ existing_cdp = (IF n > 0 /\ log[n].res THEN order[n] ELSE NoUrl)
        /\ (ResolveDone /\ should_probe_existing(config)) =>
              /\ existing_cdp = NoUrl =>
                    n = Len(order) /\ \A k \in 1 .. n : order[k] \notin alive
              /\ existing_cdp # NoUrl =>
                    existing_cdp \in alive /\ \A k \in 1 .. n - 1 : order[k] \notin alive

C16_Witness ==
    /\ ResolveDone
    /\ config.cdp_url = Url("127.0.0.1", config.cdp_port, TRUE)
    /\ alive = {Localhost(config.cdp_port)}
    /\ Cardinality(Probes) = 2
    /\ existing_cdp = Localhost(config.cdp_port)

\* C15: _cdp_alive ends with Alive or Dead and never with an exception; it
\* is Alive exactly when the exchange succeeded and the body is a JSON
\* object whose Browser member is non-empty, and Dead on a transport error,
\* a timeout, a body that is not JSON, JSON that is not an object, and an
\* object without the member or with an empty one.
C15_ProbeTotalTwoValued ==
    verdict # "none" =>
        /\ verdict \in {"Alive", "Dead"}
        /\ verdict = "Alive" <=>
              /\ response.transport = "ok"
              /\ response.decodes /\ response.parses
              /\ response.type = "object"
              /\ response.has_browser /\ response.browser_truthy

C15_Witness ==
    /\ verdict = "Dead"
    /\ response.transport = "ok"
    /\ response.parses
    /\ response.type = "array"

\* ---- shutdown
Shutdown == agent_outcome # "none"
CleanupOver == Shutdown /\ pc \in {"run_end", "done"}
Owned == handle.launched_process
CleanupEvents == {k \in 1 .. Len(log) : log[k].ev \in {"c_poll", "c_terminate", "c_wait", "c_kill"}}
LogIs(k, e, i, r) == k >= 1 /\ log[k] = Ev(e, NoUrl, 0, i, r)

\* C17: with keep_alive set, cleanup sends the owned process neither a
\* terminate nor a kill and does not even poll it, so the process is as it
\* was: running if it was running, with no signal pending from cleanup.
C17_KeepAliveLeavesProcess ==
    (Shutdown /\ keep_alive) =>
        /\ CleanupEvents = {}
        /\ pc \notin {"c_wait", "c_kill"}
        /\ \A i \in 1 .. Len(procs) :
              /\ ~procs[i].killReq
              /\ procs[i].termReq => Terminations(i) # {}

C17_Witness ==
    /\ CleanupOver /\ keep_alive
    /\ Owned # NoPid
    /\ Running(Owned)
    /\ ~procs[Owned].termReq

\* C18: when the owned process has already exited, cleanup returns after
\* the poll, with no signal sent and no error; and once a cleanup is over
\* with the process exited, the guards of cleanup hold, so another call
\* would return at once as well.
C18_ExitedProcessIsNoOp ==
    /\ \A k \in CleanupEvents :
          /\ LogIs(k, "c_poll", Owned, FALSE) => (k = Len(log) /\ CleanupOver)
          /\ log[k].ev = "c_terminate" => LogIs(k - 1, "c_poll", Owned, TRUE)
    /\ (CleanupOver /\ Owned # NoPid /\ ~Running(Owned)) =>
          cleanup_skips(keep_alive, Owned) \/ already_exited(procs, Owned)

C18_Witness ==
    /\ CleanupOver /\ ~keep_alive
    /\ Owned # NoPid
    /\ LogIs(Len(log), "c_poll", Owned, FALSE)
    /\ ~procs[Owned].termReq /\ ~procs[Owned].killReq

\* C19: a forced kill is issued only after a terminate request that went
\* through and a grace wait that ran out with the process still there.
C19_KillOnlyAfterGrace ==
    \A k \in CleanupEvents :
        log[k].ev = "c_kill" =>
            /\ LogIs(k - 1, "c_wait", Owned, FALSE)
            /\ LogIs(k - 2, "c_terminate", Owned, TRUE)

\* C19 (amended): cleanup of a running owned process calls terminate first;
\* a kill follows either a grace wait that ran out or a terminate call that
\* itself raised, in which case there is no wait; there is no kill before
\* the terminate call and none after a wait that saw the process exit.
C19_KillAfterTerminateOrItsFailure ==
    \A k \in CleanupEvents :
        /\ log[k].ev = "c_kill" =>
              \/ LogIs(k - 1, "c_wait", Owned, FALSE)
                 /\ LogIs(k - 2, "c_terminate", Owned, TRUE)
              \/ LogIs(k - 1, "c_terminate", Owned, FALSE)
        /\ log[k].ev = "c_wait" => LogIs(k - 1, "c_terminate", Owned, TRUE)
        /\ log[k].ev = "c_terminate" =>
              ~keep_alive /\ LogIs(k - 1, "c_poll", Owned, TRUE)
        /\ LogIs(k, "c_wait", Owned, TRUE) => (k = Len(log) /\ CleanupOver)
        /\ log[k].ev = "c_kill" => k = Len(log)

C19_Witness ==
    /\ CleanupOver
    /\ LogIs(Len(log), "c_kill", Owned, TRUE)
    /\ LogIs(Len(log) - 1, "c_wait", Owned, FALSE)
    /\ LogIs(Len(log) - 2, "c_terminate", Owned, TRUE)
    /\ procs[Owned].termReq /\ procs[Owned].killReq

Failed(e) == \E k \in 1 .. Len(log) : log[k].ev = e /\ ~log[k].res

\* C20: whatever fails during shutdown (browser.stop(), terminate, the
\* wait, the kill), cleanup ends by returning, the exception in flight is
\* the one the agent phase ended with, and the exit status is the one that
\* outcome alone determines: 0, 1, or 130.
C20_ShutdownFailuresContained ==
    Shutdown =>
        /\ pc \in {"stop", "cleanup", "c_wait", "c_kill", "run_end", "done"}
        /\ in_flight = (IF agent_outcome = "ok" THEN "none" ELSE agent_outcome)
        /\ Failed("c_kill") => CleanupOver
        /\ pc = "done" =>
              exit_status = (CASE agent_outcome = "ok" -> 0
                               [] agent_outcome = "KeyboardInterrupt" -> 130
                               [] OTHER -> 1)

C20_Witness ==
    /\ pc = "done"
    /\ agent_outcome = "ok" /\ exit_status = 0
    /\ Failed("stop") /\ Failed("c_terminate") /\ Failed("c_kill")
    /\ Running(Owned)

\* ---- the run as a whole
Aborted == error # NoErr
NegotiationErrors == LaunchFailures \cup {"NoLiveEndpoint", "ExecutableNotFound"}
PortTests == {k \in 1 .. Len(log) : log[k].ev = "porttest"}
ShutdownEvents == {k \in 1 .. Len(log) : log[k].ev \in {"stop", "cleanup"}} \cup CleanupEvents
Last == log[Len(log)]

\* C21: an error raised by build_browser (no live endpoint in own mode, a
\* missing executable, a failed second attempt, port exhaustion among them)
\* ends the run with the agent never built or run and no shutdown step; the
\* last thing the negotiation did is the step that failed, so no probe,
\* port test, spawn or change of mode follows the error; and a negotiation
\* that is over has either produced a handle of mode own, fresh or managed
\* or raised.
C21_FatalErrorAbortsRun ==
    /\ Aborted =>
          /\ pc \in {"raised", "done"}
          /\ handle = NoHandle
          /\ ~Shutdown /\ ShutdownEvents = {}
          /\ error.kind = "NoLiveEndpoint" =>
                /\ active_mode = "own" /\ Len(procs) = 0 /\ PortTests = {}
                /\ Last.ev = "probe" /\ Last.pid = NoPid /\ ~Last.res
          /\ error.kind = "ExecutableNotFound" =>
                /\ active_mode = "fresh" /\ attempt = 0
                /\ Len(procs) = 0 /\ PortTests = {}
          /\ error.kind \in LaunchFailures =>
                active_mode = "fresh" /\ attempt = 2
          /\ error.kind = "ResourceExhausted" =>
                Last = Ev("porttest", NoUrl, ScanStop, NoPid, TRUE)
          /\ error.kind = "StartupTimeout" =>
                Last.ev = "terminate" /\ Last.pid = process
          /\ error.kind = "ProcessExitedEarly" =>
                Last.ev = "probe" /\ Last.pid = process /\ ~Last.res
    /\ (~Negotiating /\ ~Aborted) =>
          /\ handle.mode \in {"own", "fresh", "managed"}
          /\ handle.mode = runtime_mode(config.browser_mode, active_mode)
    /\ pc = "done" => (Aborted <=> ~Shutdown)

C21_Witness ==
    /\ pc = "done"
    /\ error.kind = "ResourceExhausted"
    /\ error.ctxKind = "StartupTimeout"
    /\ ~Shutdown
    /\ exit_status = 1

\* C22: with connect_existing_cdp false (--no-cdp), a run in auto mode
\* probes no candidate endpoint and does not resolve to own.
C22_NoCdpDisablesAutoAttach ==
    (config.browser_mode = "auto" /\ ~config.connect_existing_cdp) =>
        /\ Probes = {}
        /\ active_mode # "own"
        /\ Returned => handle.mode = "fresh"

\* The texts of RawModes that are no mode after trimming and lower-casing.
InvalidRawModes ==
    {<<"c", "h", "r", "o", "m", "e">>, <<"a", " ", "u", "t", "o">>,
     <<"a", "u", "t", "o", "s">>, <<" ">>, << >>, <<"F", "R", "E", "S">>}

\* C23: a mode text that is none of auto, own, fresh, managed after trimming
\* and lower-casing ends the run with the configuration-error status 2, and
\* build_browser is never entered: nothing is probed, tested, created or
\* spawned, and neither agent nor shutdown runs.
C23_InvalidModeRejected ==
    (raw_mode \in InvalidRawModes /\ pc # "main") =>
        /\ pc = "done" /\ exit_status = 2
        /\ config.browser_mode = "unvalidated"
        /\ log = << >> /\ procs = << >> /\ dirs = {}
        /\ handle = NoHandle /\ ~Aborted /\ ~Shutdown

C23_Witness ==
    /\ pc = "done"
    /\ raw_mode = <<"a", " ", "u", "t", "o">>
    /\ exit_status = 2
    /\ log = << >>

LiveProbesOf(u) == {k \in Probes : log[k].url = u /\ log[k].res}

\* C24: each decision that depends on liveness has a probe of its own: when
\* auto has resolved to own, the adoption of the endpoint rests on a second
\* probe of it, made after the one that resolved auto.
C24_EachDecisionReprobes ==
    (config.browser_mode = "auto" /\ Returned /\ handle.mode = "own") =>
        Cardinality(LiveProbesOf(handle.cdp_url)) >= 2

SpawnOf(i) == CHOOSE j \in Spawns : log[j].pid = i

\* C25: in each attempt the port given to the spawned process is the port
\* of the last connect test before the spawn, that test failed, and it is
\* the end of a run of tests that starts at the desired port after the
\* previous attempt was over; no port is taken from an earlier attempt.
C25_PortTestedInSameAttempt ==
    /\ \A j \in Spawns :
          LET p == log[j].port
              i == log[j].pid
              first == j - 1 - (p - config.cdp_port)
          IN  /\ procs[i].port = p
              /\ j >= 2 /\ log[j - 1] = Ev("porttest", NoUrl, p, NoPid, FALSE)
              /\ first >= 1
              /\ log[first].ev = "porttest" /\ log[first].port = config.cdp_port
              /\ \A k \in first .. j - 1 : log[k].ev = "porttest"
              /\ first > 1 => log[first - 1].ev # "spawn"
              /\ i > 1 => first > SpawnOf(i - 1) + 1
    /\ pc = "lp_spawn" => Last = Ev("porttest", NoUrl, port, NoPid, FALSE)

C25_Witness ==
    /\ Len(procs) = 2
    /\ procs[1].port = config.cdp_port
    /\ procs[2].port = config.cdp_port + 1
    /\ config.cdp_port + 1 \notin listening
    /\ first_error.kind = "StartupTimeout"

\* C26: every candidate probe comes before the first connect test on a port
\* and before the first spawn; once the launcher runs, auto has been
\* resolved to fresh and stays so, and a failed attempt is followed by no
\* further candidate probe.
C26_AutoResolvedFirst ==
    /\ \A k \in Probes : \A j \in PortTests \cup Spawns : k < j
    /\ Cardinality(Probes) <= Len(ExpectedOrder(config))
    /\ config.browser_mode = "auto" =>
          /\ pc \notin {"bb_start", "resolve", "bb_mode", "raised"} =>
                active_mode \in {"own", "fresh"}
          /\ (attempt >= 1 \/ PortTests # {} \/ Len(procs) > 0) =>
                active_mode = "fresh" /\ existing_cdp = NoUrl
          /\ active_mode = "own" => PortTests = {} /\ Len(procs) = 0

C26_Witness ==
    /\ Returned
    /\ config.browser_mode = "auto"
    /\ Cardinality(Probes) = 2
    /\ first_error.kind = "ProcessExitedEarly"
    /\ handle.launched_process = 2

InLoop == pc \in {"lp_loop", "lp_poll", "lp_timeout"}

LoopFailures == {"ProcessExitedEarly", "StartupTimeout"}

\* the step that leaves the loop is one of its three ends (or the interrupt
\* of the whole run, which is no end of the loop itself)
LoopExit ==
    InLoop /\ ~InLoop' =>
        \/ /\ pc' = "bb_build"
           /\ log' = Append(log, Ev("probe", launch_cdp_url(port), 0, process, TRUE))
           /\ launched_process' = process
           /\ UNCHANGED <<first_error, error>>
        \/ /\ pc' = "lp_port"
           /\ attempt = 1 /\ first_error'.kind \in LoopFailures
           /\ launched_process' = NoPid /\ UNCHANGED error
        \/ /\ pc' = "raised"
           /\ attempt = 2 /\ error'.kind \in LoopFailures
           /\ launched_process' = NoPid
        \/ /\ pc' = "raised"
           /\ error'.kind = "KeyboardInterrupt"

\* C27: the readiness loop always ends: from every state inside it the
\* attempt goes on to the build of the handle (endpoint alive), to the retry
\* or to a raised error (the process exited, or the deadline passed); the
\* step that leaves the loop is exactly one of these; the process is polled
\* and the loop sleeps only before the deadline, and the timeout branch is
\* entered only at or after it.
C27_PollingLoopEnds ==
    /\ [](pc = "lp_poll" => now < deadline)
    /\ [](pc = "lp_timeout" => now >= deadline)
    /\ [](InLoop => now <= deadline)
    /\ [][LoopExit]_vars
    /\ InLoop ~> pc \in {"bb_build", "lp_port", "raised"}

C27_Witness ==
    /\ pc = "lp_timeout"
    /\ now = deadline
    /\ Running(process) /\ ~procs[process].ready
    /\ attempt = 2

\* C28: a handle of mode own or managed carries no process, and its cleanup,
\* with keep_alive set or not, polls nothing, sends no terminate and no kill
\* and never waits: the call returns at its first guard, and no process has
\* a signal pending.
C28_CleanupSparesUnowned ==
    handle.mode \in {"own", "managed"} =>
        /\ handle.launched_process = NoPid
        /\ CleanupEvents = {}
        /\ pc \notin {"c_wait", "c_kill"}
        /\ \A i \in 1 .. Len(procs) : ~procs[i].termReq /\ ~procs[i].killReq
        /\ \A k \in 1 .. Len(log) : log[k].ev = "cleanup" => log[k].pid = NoPid
        /\ pc = "cleanup" => ENABLED CleanupEnter

C28_Witness ==
    /\ CleanupOver
    /\ handle.mode = "own"
    /\ config.browser_mode = "auto"
    /\ ~keep_alive
    /\ \E k \in 1 .. Len(log) : log[k] = Ev("cleanup", NoUrl, 0, NoPid, FALSE)

Cleanups == {k \in 1 .. Len(log) : log[k].ev = "cleanup"}
Stops == {k \in 1 .. Len(log) : log[k].ev = "stop"}

\* C29: whichever way the agent phase ended (completion, error, interrupt)
\* and whether the stop of the browser session succeeded or failed, the run
\* calls cleanup exactly once, on the resolved handle and with the
\* configured keep_alive, and after the one attempt to stop the session;
\* cleanup is never called without a handle or before the stop.
C29_CleanupOncePerRun ==
    /\ Cardinality(Cleanups) <= 1 /\ Cardinality(Stops) <= 1
    /\ \A c \in Cleanups :
          /\ Shutdown /\ handle # NoHandle
          /\ log[c] = Ev("cleanup", NoUrl, 0, handle.launched_process, keep_alive)
          /\ \E s \in Stops : s < c
    /\ Stops # {} => Shutdown /\ handle # NoHandle
    /\ pc \in {"c_wait", "c_kill"} => Cleanups # {}
    /\ pc = "cleanup" => Stops # {} /\ Cleanups = {}
    /\ (Shutdown /\ pc \in {"run_end", "done"}) =>
          Cardinality(Cleanups) = 1 /\ Cardinality(Stops) = 1

C29_Witness ==
    /\ pc = "done"
    /\ agent_outcome = "KeyboardInterrupt"
    /\ \E s \in Stops : ~log[s].res
    /\ Cleanups # {}
    /\ handle.mode = "fresh"
    /\ ~Running(handle.launched_process)

\* C30: a launch that succeeded returns the process spawned last, in the
\* directory of the attempt that succeeded (the retry's process when the
\* first attempt failed, never the first one), and the loopback URL of the
\* port that process was started with, and a probe of that URL, made after
\* the spawn and on behalf of that process, was answered alive.
C30_ReturnsProbedEndpoint ==
    /\ launched_process # NoPid =>
          LET lp == launched_process IN
          /\ lp = Len(procs) /\ lp = process
          /\ procs[lp].dir = user_data_dir
          /\ IF first_error = NoErr
             THEN lp = 1 /\ procs[lp].dir = BaseDir
             ELSE attempt = 2 /\ procs[lp].dir # BaseDir
          /\ cdp_url = Loopback(procs[lp].port)
          /\ log[SpawnOf(lp)].port = procs[lp].port
          /\ \E k \in SpawnOf(lp) + 1 .. Len(log) :
                log[k] = Ev("probe", cdp_url, 0, lp, TRUE)
    /\ (Returned /\ handle.mode = "fresh") =>
          /\ handle.launched_process = launched_process
          /\ launched_process # NoPid
          /\ handle.cdp_url = cdp_url

C30_Witness ==
    /\ Returned
    /\ handle.launched_process = 2
    /\ handle.cdp_url = Loopback(procs[2].port)
    /\ procs[1].port = procs[2].port
    /\ first_error.kind = "ProcessExitedEarly"

\* the lookup of line 122 failed: nothing else has happened in the launcher
MissingFailsAtOnce ==
    error.kind = "ExecutableNotFound" =>
        /\ pc \in {"raised", "done"}
        /\ attempt = 0 /\ first_error = NoErr
        /\ Len(procs) = 0 /\ dirs = {} /\ PortTests = {}

\* C31: an executable that is missing or cannot be run makes the launcher
\* fail at once: no directory is created, no port is tested, no process is
\* spawned and there is no second attempt, neither when the lookup finds
\* nothing nor when what it finds cannot be executed.
C31_BadExecutableFailsAtOnce ==
    /\ MissingFailsAtOnce
    /\ executable = "unrunnable" =>
          /\ dirs = {} /\ PortTests = {} /\ Len(procs) = 0
          /\ attempt <= 1 /\ first_error = NoErr

NothingRan ==
    /\ log = << >> /\ procs = << >> /\ dirs = {}
    /\ handle = NoHandle /\ error = NoErr /\ agent_outcome = "none"

RunFailures == NegotiationErrors \cup {"BuildFailed"}

Present(n) ==
    environ[n].set /\ \E k \in 1 .. Len(environ[n].val) : environ[n].val[k] \notin Whitespace
IsAuto == Lower(Strip(provider)) = AutoProvider
Resolved == pc \in {"p_check", "p_done"}

\* C33: with provider auto (in any spelling), the provider selected is
\* gemini exactly when a Google key is present and an OpenAI key is not, and
\* openai in every other case, both keys present and no key present among
\* them; validation then rejects the settings exactly when the selected
\* provider has no key, which with auto means that no key is present at all.
C33_AutoProviderResolution ==
    IsAuto =>
        /\ Resolved =>
              /\ selected \in {"gemini", "openai"}
              /\ selected = "gemini" <=>
                    (Present("GOOGLE_API_KEY") /\ ~Present("OPENAI_API_KEY"))
        /\ pc = "p_done" =>
              /\ accepted \in {"ok", "rejected"}
              /\ accepted = "rejected" <=>
                    \/ selected = "openai" /\ ~Present("OPENAI_API_KEY")
                    \/ selected = "gemini" /\ ~Present("GOOGLE_API_KEY")
              /\ accepted = "rejected" <=>
                    (~Present("GOOGLE_API_KEY") /\ ~Present("OPENAI_API_KEY"))

C33_Witness ==
    /\ pc = "p_done"
    /\ provider = <<" ", "A", "U", "T", "O", "\t">>
    /\ Present("GOOGLE_API_KEY") /\ Present("OPENAI_API_KEY")
    /\ environ["OPENAI_KEY"] = SetTo(<<"k", " ", "#", "c">>)
    /\ environ["OPENAI_API_KEY"] = SetTo(<<"k">>)
    /\ selected = "openai" /\ accepted = "ok"

====
